---- MODULE Spec2Model ----
(***************************************************************************)
(* Model of the document database of src/unnamed/part_001 (final version   *)
(* of main.go, lines 370-908): the secondary index (index, reIndex,        *)
(* getPathValues, lookup), the query parser (parseQuery, lexString), the   *)
(* matcher (Query.match, getPath) and the request handlers (addDocument,   *)
(* searchDocument, getDocument).                                           *)
(*                                                                         *)
(* Text is modelled as a sequence of one-character strings, so that        *)
(* formatting, joining, splitting and lexing are computed and not assumed. *)
(* JSON numbers are modelled by integers (float64 values without a         *)
(* fraction); document IDs are the texts u1, u2, ... (uuid.New is opaque). *)
(***************************************************************************)
EXTENDS Integers, Sequences, FiniteSets, TLC

VARIABLES
    phase,      \* "boot" (main before reIndex returns) or "serving"
    db,         \* primary store s.db: ID number -> 0 (absent), Bad or a catalogue index
    indexDb,    \* secondary store s.indexDb: key text -> comma-joined ID text
    used,       \* ID numbers uuid.New has already returned
    resp,       \* the response of the last handler (jsonResponse body or a panic)
    reqs,       \* concurrent ingestion requests: request -> its position and locals
    qin,        \* parser harness: the query text under test
    qout,       \* parser harness: what parseQuery returned for qin
    min,        \* matcher harness: the (document, comparison) under test
    mout        \* matcher harness: what Query.match returned for min

vars == <<phase, db, indexDb, used, resp, reqs, qin, qout, min, mout>>

----------------------------------------------------------------------------
(* Bounds *)

MaxIds == 2         \* number of distinct IDs uuid.New may return (sequential model)
NReq == 2           \* number of concurrent ingestion requests
MaxQueryLen == 4    \* length of the query texts fed to the parser harness
MaxComparisons == 2 \* number of comparisons in the well-formed query texts

----------------------------------------------------------------------------
(* Text helpers *)

Digit == <<"0", "1", "2", "3", "4", "5", "6", "7", "8", "9">>

RECURSIVE Digits(_)
\* decimal digits of a natural number
Digits(n) == IF n < 10 THEN <<Digit[n + 1]>>
             ELSE Digits(n \div 10) \o <<Digit[(n % 10) + 1]>>

RECURSIVE StripZeros(_)
StripZeros(s) == IF Len(s) > 1 /\ s[Len(s)] = "0"
                 THEN StripZeros(SubSeq(s, 1, Len(s) - 1)) ELSE s

\* strconv 'g' format with shortest precision, as fmt's %v uses for float64:
\* the exponent form is used when the decimal exponent is >= 6
\* (integral values only; the exponent has at least two digits).
FmtFloat(n) ==
    LET a == IF n < 0 THEN 0 - n ELSE n
        ds == Digits(a)
        exp == Len(ds) - 1
        mant == StripZeros(ds)
        body == IF exp < 6 THEN ds
                ELSE <<mant[1]>>
                     \o (IF Len(mant) > 1 THEN <<".">> \o SubSeq(mant, 2, Len(mant)) ELSE <<>>)
                     \o <<"e", "+">>
                     \o (IF exp < 10 THEN <<"0">> ELSE <<>>) \o Digits(exp)
    IN (IF n < 0 THEN <<"-">> ELSE <<>>) \o body

RECURSIVE Join(_, _)
\* strings.Join
Join(parts, sep) == IF Len(parts) = 0 THEN <<>>
                    ELSE IF Len(parts) = 1 THEN parts[1]
                    ELSE parts[1] \o sep \o Join(Tail(parts), sep)

RECURSIVE SplitFrom(_, _, _)
SplitFrom(s, sep, cur) ==
    IF Len(s) = 0 THEN <<cur>>
    ELSE IF Head(s) = sep THEN <<cur>> \o SplitFrom(Tail(s), sep, <<>>)
    ELSE SplitFrom(Tail(s), sep, Append(cur, Head(s)))

\* strings.Split with a one-character separator: always at least one part
Split(s, sep) == SplitFrom(s, sep, <<>>)

SeqToSet(s) == {s[k] : k \in 1..Len(s)}

\* order of the characters that occur in object keys of the catalogue
CharOrd(c) == CHOOSE k \in 1..11 :
    <<" ", ".", "1", "2", "a", "b", "c", "g", "n", "t", "x">>[k] = c

RECURSIVE TextLess(_, _)
\* byte-wise string order, as sort.Strings orders map keys when fmt prints a map
TextLess(s, t) ==
    IF Len(t) = 0 THEN FALSE
    ELSE IF Len(s) = 0 THEN TRUE
    ELSE IF Head(s) = Head(t) THEN TextLess(Tail(s), Tail(t))
    ELSE CharOrd(Head(s)) < CharOrd(Head(t))

----------------------------------------------------------------------------
(* Documents: map[string]any as decoded by encoding/json *)

Num(n) == [t |-> "num", n |-> n]
Str(s) == [t |-> "str", s |-> s]
Bool(b) == [t |-> "bool", b |-> b]
Null == [t |-> "null"]
Arr(a) == [t |-> "arr", a |-> a]
Obj(o) == [t |-> "obj", o |-> o]

\* object with one / two fields
O1(k, v) == (k :> v)
O2(k1, v1, k2, v2) == (k1 :> v1) @@ (k2 :> v2)

kA == <<"a">>
kB == <<"b">>
kC == <<"c">>
kX == <<"x">>
kT == <<"t">>
kN == <<"n">>
kG == <<"g">>
tJohn == <<"j", "o", "h", "n">>
tJohnDoe == <<"j", "o", "h", "n", " ", "d", "o", "e">>

\* The documents a request body may hold.
\*  1  {"a":{"b":12},"n":"john doe"}     the scenario document of the spec
\*  2  {"n":"john","g":20}                equality and ordering on one document
\*  3  {"a":{"b":{"c":1}}}                three object levels
\*  4  {"n":"john","t":[1,{"c":2}]}       shares n=john with 2; an array that holds
\*                                        a scalar and an object
\*  5  {"a":{"b":{"c":1}},"x":{"b":{"c":1}},"g":"30"}
\*                                        two three-level leaves, numeric string
\*  6  {"g":true,"c":null,"x":{"t":[1]}} boolean and null leaves, an array in an object
Docs == <<
    O2(kA, Obj(O1(kB, Num(12))), kN, Str(tJohnDoe)),
    O2(kN, Str(tJohn), kG, Num(20)),
    O1(kA, Obj(O1(kB, Obj(O1(kC, Num(1)))))),
    O2(kN, Str(tJohn), kT, Arr(<<Num(1), Obj(O1(kC, Num(2)))>>)),
    O2(kA, Obj(O1(kB, Obj(O1(kC, Num(1))))), kX, Obj(O1(kB, Obj(O1(kC, Num(1))))))
        @@ O1(kG, Str(<<"3", "0">>)),
    O2(kG, Bool(TRUE), kC, Null) @@ O1(kX, Obj(O1(kT, Arr(<<Num(1)>>))))
>>

DocIds == 1..Len(Docs)

\* a stored value that json.Unmarshal rejects
Bad == 0 - 1

\* json.Unmarshal(value, &document): the decoded map, NilMap on a decode error
NilMap == <<>>
Decode(d) == IF d = Bad THEN NilMap ELSE Docs[d]

\* the text of the ID number i
IdText(i) == <<"u">> \o Digits(i)

RECURSIVE fmtV(_)
\* fmt's %v of a decoded JSON value
fmtV(value) ==
    CASE value.t = "num" -> FmtFloat(value.n)
      [] value.t = "str" -> value.s
      [] value.t = "bool" -> (IF value.b THEN <<"t", "r", "u", "e">>
                              ELSE <<"f", "a", "l", "s", "e">>)
      [] value.t = "null" -> <<"<", "n", "i", "l", ">">>
      [] value.t = "arr" ->
            <<"[">> \o Join([k \in 1..Len(value.a) |-> fmtV(value.a[k])], <<" ">>) \o <<"]">>
      [] value.t = "obj" ->
            LET RECURSIVE sorted(_)
                sorted(keys) ==
                    IF keys = {} THEN <<>>
                    ELSE LET k == CHOOSE x \in keys : \A y \in keys \ {x} : TextLess(x, y)
                         IN <<k \o <<":">> \o fmtV(value.o[k])>> \o sorted(keys \ {k})
            IN <<"m", "a", "p", "[">> \o Join(sorted(DOMAIN value.o), <<" ">>) \o <<"]">>

RECURSIVE getPathValuesArrays(_, _)
\* getPathValues without the case that skips arrays: an array is formatted
\* like a scalar
getPathValuesArrays(obj, prefix) ==
    LET RECURSIVE walk(_)
        walk(keys) ==
            IF keys = {} THEN <<>>
            ELSE LET key == CHOOSE k \in keys : TRUE
                     value == obj[key]
                     here ==
                        IF value.t = "obj" THEN getPathValuesArrays(value.o, key)
                        ELSE <<(IF prefix # <<>> THEN prefix \o <<".">> \o key ELSE key)
                               \o <<"=">> \o fmtV(value)>>
                 IN here \o walk(keys \ {key})
    IN walk(DOMAIN obj)

RECURSIVE getPathValues(_, _)
\* getPathValues(obj, prefix): the list of "path=value" keys of obj.  The
\* order of the list is the map's iteration order, which Go leaves
\* unspecified; the model walks the fields in one fixed order.
getPathValues(obj, prefix) ==
    LET RECURSIVE walk(_)
        walk(keys) ==
            IF keys = {} THEN <<>>
            ELSE LET key == CHOOSE k \in keys : TRUE
                     value == obj[key]
                     here ==
                        IF value.t = "obj" THEN getPathValues(value.o, key)
                        ELSE IF value.t = "arr" THEN <<>>
                        ELSE <<(IF prefix # <<>> THEN prefix \o <<".">> \o key ELSE key)
                               \o <<"=">> \o fmtV(value)>>
                 IN here \o walk(keys \ {key})
    IN walk(DOMAIN obj)

----------------------------------------------------------------------------
(* Matcher: Query.match and getPath *)

DigitChars == {"0", "1", "2", "3", "4", "5", "6", "7", "8", "9"}
LetterChars == {"a", "b", "c", "d", "e", "g", "h", "j", "n", "o", "t", "u", "v", "x"}
SpaceChars == {" "}
MatchOps == {<<"=">>, <<">">>, <<"<">>}

DigitVal(c) == CHOOSE k \in 0..9 : Digit[k + 1] = c

RECURSIVE Pow10(_)
Pow10(k) == IF k = 0 THEN 1 ELSE 10 * Pow10(k - 1)

RECURSIVE DigitsVal(_, _)
DigitsVal(s, acc) == IF Len(s) = 0 THEN acc
                     ELSE DigitsVal(Tail(s), 10 * acc + DigitVal(Head(s)))

\* strconv.ParseFloat(s, 64) on decimal texts: an optional sign, digits with
\* at most one '.', at least one digit.  The result is num / 10^scale; a
\* syntax error returns the value 0 together with the error.  (Exponents,
\* hexadecimal forms, "inf" and "nan" do not occur in the model's texts.)
ParseFloat(s) ==
    LET signed == Len(s) > 0 /\ s[1] \in {"+", "-"}
        body == IF signed THEN Tail(s) ELSE s
        dots == {k \in 1..Len(body) : body[k] = "."}
        wellFormed == /\ \A k \in 1..Len(body) : body[k] \in DigitChars \cup {"."}
                      /\ Cardinality(dots) <= 1
                      /\ \E k \in 1..Len(body) : body[k] \in DigitChars
        dot == IF dots = {} THEN Len(body) + 1 ELSE CHOOSE k \in dots : TRUE
        digs == SubSeq(body, 1, dot - 1) \o SubSeq(body, dot + 1, Len(body))
        mag == DigitsVal(digs, 0)
    IN IF wellFormed
       THEN [ok |-> TRUE,
             num |-> IF signed /\ s[1] = "-" THEN 0 - mag ELSE mag,
             scale |-> IF dots = {} THEN 0 ELSE Len(body) - dot]
       ELSE [ok |-> FALSE, num |-> 0, scale |-> 0]

\* x <= y for two parsed floats
FloatLessOrEqual(x, y) == x.num * Pow10(y.scale) <= y.num * Pow10(x.scale)

\* x < y for two parsed floats
FloatLess(x, y) == x.num * Pow10(y.scale) < y.num * Pow10(x.scale)

RECURSIVE getPath(_, _)
\* getPath(doc, parts): [ok, value]; docSegment starts as the document itself
getPath(docSegment, parts) ==
    IF Len(parts) = 0 THEN [ok |-> TRUE, value |-> docSegment]
    ELSE IF docSegment.t # "obj" THEN [ok |-> FALSE, value |-> Null]
    ELSE IF Head(parts) \notin DOMAIN docSegment.o THEN [ok |-> FALSE, value |-> Null]
    ELSE getPath(docSegment.o[Head(parts)], Tail(parts))

\* fmt.Sprint("%v", value): Sprint takes no format; it prints its operands
\* one after the other, with a space only between two non-string operands.
SprintPercentV(value) == <<"%", "v">> \o fmtV(value)

\* the body of the loop of Query.match for one comparison: TRUE when the
\* loop continues, FALSE when match returns false
matchArgument(doc, argument) ==
    LET got == getPath(Obj(doc), argument.key)
        value == got.value
        right == ParseFloat(argument.value)     \* err is not looked at
        left == IF value.t = "num" THEN [ok |-> TRUE, num |-> value.n, scale |-> 0]
                ELSE IF value.t = "str" THEN ParseFloat(value.s)
                ELSE [ok |-> FALSE, num |-> 0, scale |-> 0]
    IN IF ~got.ok THEN FALSE
       ELSE IF argument.op = <<"=">> THEN SprintPercentV(value) = argument.value
       ELSE IF ~left.ok THEN FALSE
       ELSE IF argument.op = <<">">> THEN FloatLess(right, left)
       ELSE FloatLess(left, right)

\* Query.match
match(ands, doc) == \A k \in 1..Len(ands) : matchArgument(doc, ands[k])

----------------------------------------------------------------------------
(* Parser: parseQuery and lexString.  Positions are 0-based as in the     *)
(* source; the texts are ASCII, so rune and byte positions coincide.       *)

At(input, idx) == input[idx + 1]

RECURSIVE lexQuoted(_, _, _)
\* the loop of lexString after an opening quote
lexQuoted(input, idx, s) ==
    IF idx >= Len(input) THEN [s |-> <<>>, idx |-> idx, err |-> "expected end of quoted string"]
    ELSE IF At(input, idx) = "\"" THEN [s |-> s, idx |-> idx + 1, err |-> ""]
    ELSE lexQuoted(input, idx + 1, Append(s, At(input, idx)))

RECURSIVE lexBareNoDot(_, _, _)
\* lexBare that stops at '.': "only contiguous digits and letters"
lexBareNoDot(input, idx, s) ==
    IF idx < Len(input) /\ At(input, idx) \in LetterChars \cup DigitChars
    THEN lexBareNoDot(input, idx + 1, Append(s, At(input, idx)))
    ELSE IF Len(s) = 0 THEN [s |-> <<>>, idx |-> idx, err |-> "no string found"]
    ELSE [s |-> s, idx |-> idx, err |-> ""]

RECURSIVE lexBare(_, _, _)
\* the loop of lexString over letters, digits and '.'
lexBare(input, idx, s) ==
    IF idx < Len(input) /\ At(input, idx) \in LetterChars \cup DigitChars \cup {"."}
    THEN lexBare(input, idx + 1, Append(s, At(input, idx)))
    ELSE IF Len(s) = 0 THEN [s |-> <<>>, idx |-> idx, err |-> "no string found"]
    ELSE [s |-> s, idx |-> idx, err |-> ""]

lexString(input, idx) ==
    IF idx >= Len(input) THEN [s |-> <<>>, idx |-> idx, err |-> ""]
    ELSE IF At(input, idx) = "\"" THEN lexQuoted(input, idx + 1, <<>>)
    ELSE lexBare(input, idx, <<>>)

\* results of parseQuery: a Query, an error, or a run-time panic
\* (index out of range), which aborts the handler
ParseOk(ands) == [kind |-> "ok", ands |-> ands, msg |-> "", at |-> 0 - 1]
ParseErr(msg, at) == [kind |-> "err", ands |-> <<>>, msg |-> msg, at |-> at]
ParsePanic == [kind |-> "panic", ands |-> <<>>, msg |-> "index out of range", at |-> 0 - 1]

RECURSIVE eatSpace(_, _)
\* for unicode.IsSpace(qRune[i]) { i++ }: the position of the next
\* non-space character, or -1 when the loop indexes past the end
eatSpace(q, i) == IF i >= Len(q) THEN 0 - 1
                  ELSE IF At(q, i) \in SpaceChars THEN eatSpace(q, i + 1)
                  ELSE i

RECURSIVE parseLoop(_, _, _)
\* the loop "for i < len(qRune)" of parseQuery
parseLoop(q, i, ands) ==
    IF i >= Len(q) THEN ParseOk(ands)
    ELSE
    LET i1 == eatSpace(q, i)
        key == lexString(q, i1)
        i2 == key.idx + 1
        hasOp == At(q, i2) \in {">", "<"}
        op == IF hasOp THEN <<At(q, i2)>> ELSE <<"=">>
        i3 == IF hasOp THEN i2 + 1 ELSE i2
        value == lexString(q, i3)
        argument == [key |-> Split(key.s, "."), value |-> value.s, op |-> op]
    IN IF i1 < 0 THEN ParsePanic
       ELSE IF key.err # ""
            THEN (IF key.idx >= Len(q) THEN ParsePanic     \* q[nextIdx] in the message
                  ELSE ParseErr("expected valid key", 0 - 1))
       ELSE IF key.idx >= Len(q) THEN ParsePanic           \* q[nextIdx] != ':'
       ELSE IF At(q, key.idx) # ":" THEN ParseErr("expected colon", key.idx)
       ELSE IF i2 >= Len(q) THEN ParsePanic                \* q[i] == '>'
       ELSE IF value.err # ""
            THEN (IF value.idx >= Len(q) THEN ParsePanic   \* q[nextIdx] in the message
                  ELSE ParseErr("expected valid value", 0 - 1))
       ELSE parseLoop(q, value.idx, Append(ands, argument))

\* parseQuery that takes the empty text for a text with a missing key
parseQueryEmptyIsError(q) ==
    IF q = <<>> THEN ParseErr("expected valid key", 0 - 1) ELSE parseLoop(q, 0, <<>>)

parseQuery(q) == IF q = <<>> THEN ParseOk(<<>>) ELSE parseLoop(q, 0, <<>>)

----------------------------------------------------------------------------
(* The stores.  pebble's Get, Set and iteration are atomic one by one.  A  *)
(* fault names the index keys whose Get fails with an error other than     *)
(* ErrNotFound, and the index keys whose Set fails, while a handler runs.  *)

NoFault == [get |-> {}, set |-> {}]
FaultKeys == {<<"n", "=">> \o tJohn}
Faults == {NoFault} \cup {[get |-> {k}, set |-> {}] : k \in FaultKeys}
                    \cup {[get |-> {}, set |-> {k}] : k \in FaultKeys}

EmptyStore == <<>>

\* s.indexDb.Set(key, value, pebble.Sync)
Put(store, key, value) ==
    [x \in (DOMAIN store) \cup {key} |-> IF x = key THEN value ELSE store[x]]

\* the ID text list held by an index value
IdsOf(idsString) == IF Len(idsString) = 0 THEN <<>> ELSE Split(idsString, ",")

\* indexEntry without the search for the ID among the IDs already listed
indexEntryNoDedup(idsString, id) ==
    IF Len(idsString) = 0 THEN id ELSE idsString \o <<",">> \o id

\* index, lines 584-599: the new value of an entry that read idsString
indexEntry(idsString, id) ==
    IF Len(idsString) = 0 THEN id
    ELSE IF \E k \in 1..Len(Split(idsString, ",")) : Split(idsString, ",")[k] = id
         THEN idsString
         ELSE idsString \o <<",">> \o id

\* index, lines 579-582: what Get leaves in idsString (empty on any error)
indexGet(idx, pathValue, fault) ==
    IF pathValue \in DOMAIN idx /\ pathValue \notin fault.get THEN idx[pathValue] ELSE <<>>

\* index, line 608: Set, whose error is only logged
indexSet(idx, pathValue, idsString, fault) ==
    IF pathValue \in fault.set THEN idx ELSE Put(idx, pathValue, idsString)

RECURSIVE indexLoop(_, _, _, _)
\* the loop of Server.index over pathValues
indexLoop(idx, id, pathValues, fault) ==
    IF Len(pathValues) = 0 THEN idx
    ELSE LET pathValue == Head(pathValues)
             idsString == indexEntry(indexGet(idx, pathValue, fault), id)
         IN indexLoop(indexSet(idx, pathValue, idsString, fault), id, Tail(pathValues), fault)

\* Server.index(id, document)
index(idx, id, document, fault) == indexLoop(idx, id, getPathValues(document, <<>>), fault)

RECURSIVE reIndexFromAbort(_, _, _, _)
\* reIndexFrom that returns at the first value that does not decode
reIndexFromAbort(store, idx, i, fault) ==
    IF i > Len(store) THEN idx
    ELSE IF store[i] = 0 THEN reIndexFromAbort(store, idx, i + 1, fault)
    ELSE IF store[i] = Bad THEN idx
    ELSE reIndexFromAbort(store, index(idx, IdText(i), Decode(store[i]), fault), i + 1, fault)

RECURSIVE reIndexFrom(_, _, _, _)
\* the loop of Server.reIndex: the iterator visits the keys in ascending
\* order; a value that does not decode is logged and indexed as a nil map
reIndexFrom(store, idx, i, fault) ==
    IF i > Len(store) THEN idx
    ELSE IF store[i] = 0 THEN reIndexFrom(store, idx, i + 1, fault)
    ELSE reIndexFrom(store, index(idx, IdText(i), Decode(store[i]), fault), i + 1, fault)

\* Server.reIndex
reIndex(store, idx, fault) == reIndexFrom(store, idx, 1, fault)

\* Server.lookup(pathValue)
lookup(idx, pathValue, fault) ==
    IF pathValue \in fault.get THEN [err |-> TRUE, ids |-> <<>>]
    ELSE IF pathValue \notin DOMAIN idx THEN [err |-> FALSE, ids |-> <<>>]
    ELSE IF Len(idx[pathValue]) = 0 THEN [err |-> FALSE, ids |-> <<>>]
    ELSE [err |-> FALSE, ids |-> Split(idx[pathValue], ",")]

\* Server.getDocumentById(id): s.db.Get and json.Unmarshal
getDocumentById(store, id) ==
    LET hit == {i \in 1..Len(store) : IdText(i) = id /\ store[i] # 0}
        i == CHOOSE i \in hit : TRUE
    IN IF hit = {} THEN [err |-> TRUE, doc |-> NilMap]
       ELSE IF store[i] = Bad THEN [err |-> TRUE, doc |-> NilMap]
       ELSE [err |-> FALSE, doc |-> Docs[store[i]]]

----------------------------------------------------------------------------
(* Responses (jsonResponse).  A panic aborts the handler: net/http         *)
(* recovers it and the client gets no response body.                       *)

\* q and skip name the query text and the skipIndex parameter of a search
Response(op, status, ids, count, fault) ==
    [op |-> op, q |-> 0, skip |-> FALSE, status |-> status, ids |-> ids,
     count |-> count, fault |-> fault]

NoResponse == Response("none", "ok", {}, 0, FALSE)

RECURSIVE Occurrences(_, _)
Occurrences(list, x) ==
    IF Len(list) = 0 THEN 0
    ELSE (IF Head(list) = x THEN 1 ELSE 0) + Occurrences(Tail(list), x)

RECURSIVE Tally(_, _)
\* idsArgumentCount[id] after the loop over the equality arguments
Tally(lookups, id) ==
    IF Len(lookups) = 0 THEN 0
    ELSE Occurrences(Head(lookups).ids, id) + Tally(Tail(lookups), id)

IsEq(argument) == argument.op = <<"=">>

\* Server.searchDocument.  The response lists the documents in map order;
\* the model keeps the set of their IDs and the count.
searchDocument(store, idx, q, skipIndex, fault) ==
    LET parsed == parseQuery(q)
        eqArgs == SelectSeq(parsed.ands, IsEq)
        nonRangeArguments == Len(eqArgs)
        isRangeScan == Len(eqArgs) < Len(parsed.ands)
        lookups == [k \in 1..Len(eqArgs) |->
                        lookup(idx, Join(eqArgs[k].key, <<".">>) \o <<"=">> \o eqArgs[k].value,
                               fault)]
        seen == UNION {SeqToSet(lookups[k].ids) : k \in 1..Len(lookups)}
        counted == {id \in seen : Tally(lookups, id) = nonRangeArguments}
        idsInAll == IF skipIndex THEN {} ELSE counted
        loaded == [id \in idsInAll |-> getDocumentById(store, id)]
        \* lines 484-497: the candidates of the index
        fromIndex == {id \in idsInAll : ~isRangeScan \/ match(parsed.ands, loaded[id].doc)}
        \* lines 499-522: the scan appends to the documents declared at line
        \* 499, a variable of the else block; the response is built from the
        \* documents of line 471, which the scan leaves empty
        scanned == {IdText(i) : i \in {j \in 1..Len(store) :
                        store[j] # 0 /\ store[j] # Bad /\ match(parsed.ands, Docs[store[j]])}}
        documents == IF idsInAll # {} THEN fromIndex ELSE {}
        anyFault == fault # NoFault
    IN IF parsed.kind = "panic" THEN Response("search", "panic", {}, 0, anyFault)
       ELSE IF parsed.kind = "err" THEN Response("search", "error", {}, 0, anyFault)
       ELSE IF \E k \in 1..Len(lookups) : lookups[k].err
            THEN Response("search", "error", {}, 0, anyFault)
       ELSE IF idsInAll # {} /\ \E id \in idsInAll : loaded[id].err
            THEN Response("search", "error", {}, 0, anyFault)
       ELSE IF idsInAll = {} /\ \E i \in 1..Len(store) : store[i] = Bad
            THEN Response("search", "error", {}, 0, anyFault)
       ELSE Response("search", "ok", documents, Cardinality(documents), anyFault)

----------------------------------------------------------------------------
(* Query texts of the search requests *)

qAB12 == <<"a", ".", "b", ":", "1", "2">>
qABgt10 == <<"a", ".", "b", ":", ">", "1", "0">>
qEmpty == <<>>
qJohnGt18 == <<"n", ":", "j", "o", "h", "n", " ", "g", ":", ">", "1", "8">>
qJohnDoe == <<"n", ":", "\"", "j", "o", "h", "n", " ", "d", "o", "e", "\"">>
qABC1 == <<"a", ".", "b", ".", "c", ":", "1">>
qBC1 == <<"b", ".", "c", ":", "1">>
qJohnJohn == <<"n", ":", "j", "o", "h", "n", " ", "n", ":", "j", "o", "h", "n">>
qGgt18 == <<"g", ":", ">", "1", "8">>
qNoColon == <<"a", ".", "b", "1", "2">>
qJohnG20 == <<"n", ":", "j", "o", "h", "n", " ", "g", ":", "2", "0">>
qNoKey == <<":", "1">>

Queries == <<qAB12, qABgt10, qEmpty, qJohnGt18, qJohnDoe, qABC1, qBC1, qJohnJohn, qGgt18, qNoColon, qJohnG20, qNoKey>>

----------------------------------------------------------------------------
(* Sequential model: main runs reIndex and then serves one request at a    *)
(* time; the process may restart at any time, the stores persist.          *)

\* the primary store at start-up: empty, or holding values written before
\* index support existed (a document, bytes that do not decode, or such
\* bytes followed by a document)
InitialStores ==
    {[i \in 1..MaxIds |-> 0]}
    \cup {[i \in 1..MaxIds |-> IF i = 1 THEN d ELSE 0] : d \in {Bad, 1, 3}}
    \cup {[i \in 1..MaxIds |-> IF i = 1 THEN Bad ELSE IF i = 2 THEN 2 ELSE 0]}

InitCommon ==
    /\ indexDb = EmptyStore
    /\ resp = NoResponse
    /\ reqs = <<>>
    /\ qin = <<>>
    /\ qout = ParseOk(<<>>)
    /\ min = <<>>
    /\ mout = "none"

Init ==
    /\ phase = "boot"
    /\ db \in InitialStores
    /\ used = {i \in 1..MaxIds : db[i] # 0}
    /\ InitCommon

\* main, line 698: s.reIndex() before the server listens
ReIndex ==
    /\ phase = "boot"
    /\ \E fault \in Faults :
        /\ indexDb' = reIndex(db, indexDb, fault)
        /\ resp' = Response("reindex", "ok", {}, 0, fault # NoFault)
    /\ phase' = "serving"
    /\ UNCHANGED <<db, used, reqs, qin, qout, min, mout>>

\* the process stops and main starts again
Restart ==
    /\ phase = "serving"
    /\ phase' = "boot"
    /\ resp' = NoResponse
    /\ UNCHANGED <<db, indexDb, used, reqs, qin, qout, min, mout>>

\* Server.addDocument with a body that decodes: index first, then db.Set
AddDocument ==
    /\ phase = "serving"
    /\ \E i \in (1..MaxIds) \ used, d \in DocIds, fault \in Faults, setOk \in BOOLEAN :
        /\ used' = used \cup {i}
        /\ indexDb' = index(indexDb, IdText(i), Docs[d], fault)
        /\ db' = IF setOk THEN [db EXCEPT ![i] = d] ELSE db
        /\ resp' = Response("add", IF setOk THEN "ok" ELSE "error",
                            {IdText(i)}, 0, fault # NoFault \/ ~setOk)
    /\ UNCHANGED <<phase, reqs, qin, qout, min, mout>>

\* Server.addDocument with a body that does not decode
AddDocumentBadBody ==
    /\ phase = "serving"
    /\ resp' = Response("add", "error", {}, 0, FALSE)
    /\ UNCHANGED <<phase, db, indexDb, used, reqs, qin, qout, min, mout>>

\* a search that records the query text as a key of the index store
SearchDocumentRecording ==
    /\ phase = "serving"
    /\ \E k \in 1..Len(Queries), skipIndex \in BOOLEAN :
        /\ resp' = [searchDocument(db, indexDb, Queries[k], skipIndex, NoFault)
                        EXCEPT !.q = k, !.skip = skipIndex]
        /\ indexDb' = Put(indexDb, Queries[k], <<>>)
    /\ UNCHANGED <<phase, db, used, reqs, qin, qout, min, mout>>

\* Server.searchDocument
SearchDocument ==
    /\ phase = "serving"
    /\ \E k \in 1..Len(Queries), skipIndex \in BOOLEAN, fault \in {NoFault} :
        resp' = [searchDocument(db, indexDb, Queries[k], skipIndex, fault)
                    EXCEPT !.q = k, !.skip = skipIndex]
    /\ UNCHANGED <<phase, db, indexDb, used, reqs, qin, qout, min, mout>>

\* Server.getDocument
GetDocument ==
    /\ phase = "serving"
    /\ \E i \in 1..MaxIds :
        LET got == getDocumentById(db, IdText(i))
        IN resp' = Response("get", IF got.err THEN "error" ELSE "ok",
                            IF got.err THEN {} ELSE {IdText(i)}, 0, FALSE)
    /\ UNCHANGED <<phase, db, indexDb, used, reqs, qin, qout, min, mout>>

Next ==
    \/ ReIndex
    \/ Restart
    \/ AddDocument
    \/ AddDocumentBadBody
    \/ SearchDocument
    \/ GetDocument

Spec == Init /\ [][Next]_vars

\* The same program when no search request arrives: the operations that
\* write the stores, and the point lookup.
NextIndex ==
    \/ ReIndex
    \/ Restart
    \/ AddDocument
    \/ AddDocumentBadBody
    \/ GetDocument

SpecIndex == Init /\ [][NextIndex]_vars

\* The read requests over stores filled by ingestions whose store
\* operations all succeed.
ReadDocs == {2, 5}

\* Server.addDocument when indexDb.Get, indexDb.Set and db.Set succeed
Ingest ==
    /\ phase = "serving"
    /\ \E i \in (1..MaxIds) \ used, d \in ReadDocs :
        /\ used' = used \cup {i}
        /\ indexDb' = index(indexDb, IdText(i), Docs[d], NoFault)
        /\ db' = [db EXCEPT ![i] = d]
        /\ resp' = Response("add", "ok", {IdText(i)}, 0, FALSE)
    /\ UNCHANGED <<phase, reqs, qin, qout, min, mout>>

NextRead ==
    \/ ReIndex
    \/ Restart
    \/ Ingest
    \/ SearchDocument
    \/ GetDocument

SpecRead == Init /\ [][NextRead]_vars

----------------------------------------------------------------------------
(* Concurrent ingestion: net/http runs every request in its own goroutine. *)
(* A request is at one of the store operations of addDocument: the Get and *)
(* the Set of index for each path value in turn, then db.Set.  The process *)
(* may stop at any point, which ends every request in flight.              *)

Requests == 1..NReq

\* the documents of the concurrent requests: 2 and 4 share n=john
ConcDocs == {2, 4}

Idle == [pc |-> "idle", doc |-> 0, id |-> 0, todo |-> <<>>, buf |-> <<>>]

InitConc ==
    /\ phase = "serving"
    /\ db = [i \in 1..NReq |-> 0]
    /\ used = {}
    /\ indexDb = EmptyStore
    /\ resp = NoResponse
    /\ reqs = [r \in Requests |-> Idle]
    /\ qin = <<>>
    /\ qout = ParseOk(<<>>)
    /\ min = <<>>
    /\ mout = "none"

\* addDocument, lines 397-409: decode the body, draw the ID, enter index
Begin(r) ==
    /\ reqs[r].pc = "idle"
    /\ \E d \in ConcDocs, i \in (1..NReq) \ used :
        LET pathValues == getPathValues(Docs[d], <<>>)
        IN /\ used' = used \cup {i}
           /\ reqs' = [reqs EXCEPT ![r] =
                    [pc |-> IF Len(pathValues) = 0 THEN "store" ELSE "get",
                     doc |-> d, id |-> i, todo |-> pathValues, buf |-> <<>>]]
    /\ UNCHANGED <<phase, db, indexDb, resp, qin, qout, min, mout>>

\* index, line 579: s.indexDb.Get
IndexGet(r) ==
    /\ reqs[r].pc = "get"
    /\ reqs' = [reqs EXCEPT ![r].pc = "set",
                            ![r].buf = indexGet(indexDb, Head(reqs[r].todo), NoFault)]
    /\ UNCHANGED <<phase, db, indexDb, used, resp, qin, qout, min, mout>>

\* index, lines 584-608: update the value read and s.indexDb.Set it
IndexSet(r) ==
    /\ reqs[r].pc = "set"
    /\ indexDb' = indexSet(indexDb, Head(reqs[r].todo),
                           indexEntry(reqs[r].buf, IdText(reqs[r].id)), NoFault)
    /\ reqs' = [reqs EXCEPT ![r].pc = IF Len(reqs[r].todo) = 1 THEN "store" ELSE "get",
                            ![r].todo = Tail(reqs[r].todo),
                            ![r].buf = <<>>]
    /\ UNCHANGED <<phase, db, used, resp, qin, qout, min, mout>>

\* addDocument, lines 417-425: s.db.Set and the response
Store(r) ==
    /\ reqs[r].pc = "store"
    /\ \E setOk \in BOOLEAN :
        /\ db' = IF setOk THEN [db EXCEPT ![reqs[r].id] = reqs[r].doc] ELSE db
        /\ reqs' = [reqs EXCEPT ![r].pc = IF setOk THEN "done" ELSE "failed"]
    /\ UNCHANGED <<phase, indexDb, used, resp, qin, qout, min, mout>>

\* the process stops: every request in flight ends where it is
Crash ==
    /\ \E r \in Requests : reqs[r].pc \in {"get", "set", "store"}
    /\ reqs' = [r \in Requests |->
                    IF reqs[r].pc \in {"get", "set", "store"}
                    THEN [reqs[r] EXCEPT !.pc = "crashed"] ELSE reqs[r]]
    /\ UNCHANGED <<phase, db, indexDb, used, resp, qin, qout, min, mout>>

NextConc ==
    \/ \E r \in Requests : Begin(r)
    \/ \E r \in Requests : IndexGet(r)
    \/ \E r \in Requests : IndexSet(r)
    \/ \E r \in Requests : Store(r)
    \/ Crash

SpecConc == InitConc /\ [][NextConc]_vars

----------------------------------------------------------------------------
(* Parser harness: parseQuery applied to every text over the alphabet, up  *)
(* to MaxQueryLen characters.                                              *)

ParseAlphabet == {"a", "1", ".", ":", ">", "<", "\"", " "}

QueryTexts == UNION {[1..n -> ParseAlphabet] : n \in 0..MaxQueryLen}

NotParsed == [kind |-> "none", ands |-> <<>>, msg |-> "", at |-> 0 - 1]

InitParse ==
    /\ phase = "serving"
    /\ db = [i \in 1..MaxIds |-> 0]
    /\ used = {}
    /\ indexDb = EmptyStore
    /\ resp = NoResponse
    /\ reqs = <<>>
    /\ qin \in QueryTexts
    /\ qout = NotParsed
    /\ min = <<>>
    /\ mout = "none"

\* searchDocument, line 430: q, err := parseQuery(requestQuery)
Parse ==
    /\ qout = NotParsed
    /\ qout' = parseQuery(qin)
    /\ UNCHANGED <<phase, db, indexDb, used, resp, reqs, qin, min, mout>>

SpecParse == InitParse /\ [][Parse]_vars

----------------------------------------------------------------------------
(* Parser harness on well-formed texts: up to MaxComparisons comparisons   *)
(* key:[>|<]value, separated by one or two spaces.  min keeps the          *)
(* comparisons the text was written from.                                  *)

KeyTokens == {[segs |-> <<kA>>, quoted |-> FALSE],
              [segs |-> <<kA, kB>>, quoted |-> FALSE],
              [segs |-> <<kA, kB>>, quoted |-> TRUE]}

ValueTokens == {[text |-> <<"1", "2">>, quoted |-> FALSE],
                [text |-> <<"a", " ", "b">>, quoted |-> TRUE],
                [text |-> <<">", "1">>, quoted |-> TRUE],
                [text |-> <<>>, quoted |-> TRUE]}

WrittenComparisons == [key : KeyTokens, op : MatchOps, value : ValueTokens]

Separators == {<<" ">>, <<" ", " ">>}

Quote(text, quoted) == IF quoted THEN <<"\"">> \o text \o <<"\"">> ELSE text

\* the text of one comparison
Render(c) ==
    Quote(Join(c.key.segs, <<".">>), c.key.quoted) \o <<":">>
    \o (IF c.op = <<"=">> THEN <<>> ELSE c.op)
    \o Quote(c.value.text, c.value.quoted)

RenderAll(cmps, sep) == Join([k \in 1..Len(cmps) |-> Render(cmps[k])], sep)

InitParseWF ==
    /\ phase = "serving"
    /\ db = [i \in 1..MaxIds |-> 0]
    /\ used = {}
    /\ indexDb = EmptyStore
    /\ resp = NoResponse
    /\ reqs = <<>>
    /\ min \in [cmps : UNION {[1..n -> WrittenComparisons] : n \in 0..MaxComparisons},
                sep : Separators]
    /\ qin = RenderAll(min.cmps, min.sep)
    /\ qout = NotParsed
    /\ mout = "none"

SpecParseWF == InitParseWF /\ [][Parse]_vars

----------------------------------------------------------------------------
(* Matcher harness: Query.match of a one-comparison query on a document.   *)

MatchPaths == {<<kA, kB>>, <<kN>>, <<kG>>, <<kA>>, <<kA, kB, kC>>, <<kT>>, <<kC>>, <<kX>>}
MatchLiterals == {<<"1", "2">>, <<"1", "0">>, <<"2", "0">>, <<"3", "0">>, <<"1">>,
                  tJohn, tJohnDoe, <<"%", "v", "1", "2">>, <<"a">>, <<>>,
                  <<"t", "r", "u", "e">>}

Comparisons == {[key |-> p, value |-> l, op |-> o] :
                    p \in MatchPaths, l \in MatchLiterals, o \in MatchOps}

InitMatch ==
    /\ phase = "serving"
    /\ db = [i \in 1..MaxIds |-> 0]
    /\ used = {}
    /\ indexDb = EmptyStore
    /\ resp = NoResponse
    /\ reqs = <<>>
    /\ qin = <<>>
    /\ qout = ParseOk(<<>>)
    /\ min \in [doc : DocIds, cmp : Comparisons]
    /\ mout = "none"

\* q.match(document)
Match ==
    /\ mout = "none"
    /\ mout' = IF match(<<min.cmp>>, Docs[min.doc]) THEN "true" ELSE "false"
    /\ UNCHANGED <<phase, db, indexDb, used, resp, reqs, qin, qout, min>>

SpecMatch == InitMatch /\ [][Match]_vars

----------------------------------------------------------------------------
(* Properties *)

RECURSIVE Leaves(_, _)
\* the keys "P=stringify(V)" of the scalar leaves of obj that are reachable
\* through objects only, P being the full dotted path from the root
Leaves(obj, path) ==
    UNION {LET value == obj[key]
           IN IF value.t = "obj" THEN Leaves(value.o, Append(path, key))
              ELSE IF value.t = "arr" THEN {}
              ELSE {Join(Append(path, key), <<".">>) \o <<"=">> \o fmtV(value)}
           : key \in DOMAIN obj}

\* the IDs listed by the index entry of a key
EntryIds(idx, key) == IF key \in DOMAIN idx THEN SeqToSet(IdsOf(idx[key])) ELSE {}

\* the IDs of the stored documents that decode
StoredIds(store) == {IdText(i) : i \in {j \in 1..Len(store) : store[j] \notin {0, Bad}}}

NoDuplicateIds(idx) ==
    \A key \in DOMAIN idx :
        \A j, k \in 1..Len(IdsOf(idx[key])) :
            IdsOf(idx[key])[j] = IdsOf(idx[key])[k] => j = k

\* the IDs that the index lists under every equality comparison
EqIntersection(idx, ands) ==
    LET eq == SelectSeq(ands, IsEq)
        entry(a) == EntryIds(idx, Join(a.key, <<".">>) \o <<"=">> \o a.value)
    IN IF Len(eq) = 0 THEN {}
       ELSE {id \in entry(eq[1]) : \A k \in 1..Len(eq) : id \in entry(eq[k])}

IsOrdering(argument) == ~IsEq(argument)

\* the stored documents for which MatchAll holds
ScanMatches(store, ands) ==
    {id \in StoredIds(store) : match(ands, getDocumentById(store, id).doc)}

SharedKey == <<"n", "=">> \o tJohn

\* C1: when the concurrent requests all carry the pair n=john and every one
\* of them has left Server.index, the entry n=john lists exactly their IDs,
\* each once.
C1_NoLostUpdate ==
    (\A r \in Requests : reqs[r].pc \in {"store", "done", "failed"})
    => /\ EntryIds(indexDb, SharedKey) = {IdText(reqs[r].id) : r \in Requests}
       /\ Len(IdsOf(indexDb[SharedKey])) = NReq

\* C2: after a document has been indexed (by an ingestion that succeeded, or
\* by a re-index pass, no store operation failing), every scalar leaf of the
\* document, at any depth, has the document's ID under its full-path key.
C2_IndexComplete ==
    /\ (resp.op = "add" /\ resp.status = "ok" /\ ~resp.fault)
        => \A id \in resp.ids :
             \A key \in Leaves(getDocumentById(db, id).doc, <<>>) :
                id \in SeqToSet(lookup(indexDb, key, NoFault).ids)
    /\ (resp.op = "reindex" /\ ~resp.fault)
        => \A id \in StoredIds(db) :
             \A key \in Leaves(getDocumentById(db, id).doc, <<>>) :
                id \in SeqToSet(lookup(indexDb, key, NoFault).ids)

\* C3: a search whose equality intersection is empty, or that asks to skip
\* the index, answers with exactly the stored documents that match the whole
\* query, and counts them.
C3_FullScanFallback ==
    LET ands == parseQuery(Queries[resp.q]).ands
    IN (resp.op = "search" /\ resp.status = "ok"
            /\ (resp.skip \/ EqIntersection(indexDb, ands) = {}))
       => /\ resp.ids = ScanMatches(db, ands)
          /\ resp.count = Cardinality(ScanMatches(db, ands))

\* C4: a search with equality and ordering comparisons whose equality
\* intersection is not empty answers with exactly the candidates that satisfy
\* every ordering comparison.
C4_MixedQueries ==
    LET ands == parseQuery(Queries[resp.q]).ands
        ord == SelectSeq(ands, IsOrdering)
        cand == EqIntersection(indexDb, ands)
    IN (resp.op = "search" /\ resp.status = "ok" /\ ~resp.skip
            /\ Len(ord) > 0 /\ Len(ord) < Len(ands) /\ cand # {})
       => resp.ids = {id \in cand : \A k \in 1..Len(ord) :
                        matchArgument(getDocumentById(db, id).doc, ord[k])}

\* C5: an equality comparison whose path resolves matches exactly when the
\* default text of the value equals the literal.
C5_EqualityMatch ==
    (mout # "none" /\ min.cmp.op = <<"=">> /\ getPath(Obj(Docs[min.doc]), min.cmp.key).ok)
    => (mout = "true"
        <=> fmtV(getPath(Obj(Docs[min.doc]), min.cmp.key).value) = min.cmp.value)

\* C6: an ID listed by an index entry is the ID of a document that is in
\* the primary store.
C6_StoreBeforeIndex ==
    \A key \in DOMAIN indexDb :
        \A id \in EntryIds(indexDb, key) : ~getDocumentById(db, id).err

\* C7: re-indexing is idempotent: a second pass over the result of a pass
\* changes nothing; right after a pass, and right after an ingestion that
\* indexed its document, a further pass leaves the index as it is; and no
\* entry lists an ID twice.  (Store operations of the passes succeed.)
C7_ReIndexIdempotent ==
    LET once == reIndex(db, indexDb, NoFault)
    IN /\ reIndex(db, once, NoFault) = once
       /\ NoDuplicateIds(once)
       /\ NoDuplicateIds(indexDb)
       /\ (resp.op = "reindex" /\ ~resp.fault) => once = indexDb
       /\ (resp.op = "add" /\ resp.status = "ok" /\ ~resp.fault)
            => \A id \in resp.ids :
                 index(indexDb, id, getDocumentById(db, id).doc, NoFault) = indexDb

\* a second start-up pass has run over an entry that lists two IDs
C7_Witness ==
    /\ resp.op = "reindex"
    /\ ~resp.fault
    /\ \E key \in DOMAIN indexDb : Len(IdsOf(indexDb[key])) >= 2

OddQuotes(q) == Cardinality({k \in 1..Len(q) : q[k] = "\""}) % 2 = 1
NoColon(q) == (\E k \in 1..Len(q) : q[k] # " ") /\ (\A k \in 1..Len(q) : q[k] # ":")
EndsAfterColon(q) ==
    /\ Len(q) > 0
    /\ \/ q[Len(q)] = ":"
       \/ Len(q) >= 2 /\ q[Len(q)] \in {">", "<"} /\ q[Len(q) - 1] = ":"

\* C8: a text with an unterminated quoted string, without any ':', or that
\* ends right after the ':' or the operator (no value) is answered with an
\* error, wherever the failure is in the text.
C8_ParseFailuresReported ==
    (qout # NotParsed /\ (OddQuotes(qin) \/ NoColon(qin) \/ EndsAfterColon(qin)))
    => qout.kind = "err"

\* C9: parseQuery returns a Query or an error for every text.
C9_ParserTotal == qout # NotParsed => qout.kind \in {"ok", "err"}

\* C10: an ID listed under a key belongs to a stored document that has a
\* scalar leaf whose full dotted path and stringified value form that key.
C10_IndexSound ==
    \A key \in DOMAIN indexDb :
        \A id \in EntryIds(indexDb, key) \cap StoredIds(db) :
            key \in Leaves(getDocumentById(db, id).doc, <<>>)

RECURSIVE NamesIn(_)
\* every field name that occurs in a value, at any depth
NamesIn(value) ==
    IF value.t = "obj"
    THEN (DOMAIN value.o) \cup UNION {NamesIn(value.o[k]) : k \in DOMAIN value.o}
    ELSE IF value.t = "arr" THEN UNION {NamesIn(value.a[k]) : k \in 1..Len(value.a)}
    ELSE {}

RECURSIVE ArrayNames(_)
\* the names of the fields of obj whose value is an array, and every field
\* name nested inside such an array
ArrayNames(obj) ==
    UNION {LET value == obj[key]
           IN IF value.t = "arr" THEN {key} \cup NamesIn(value)
              ELSE IF value.t = "obj" THEN ArrayNames(value.o)
              ELSE {}
           : key \in DOMAIN obj}

RECURSIVE ScalarEnds(_)
\* "name=stringify(value)" for every scalar field of obj outside arrays
ScalarEnds(obj) ==
    UNION {LET value == obj[key]
           IN IF value.t = "obj" THEN ScalarEnds(value.o)
              ELSE IF value.t = "arr" THEN {}
              ELSE {key \o <<"=">> \o fmtV(value)}
           : key \in DOMAIN obj}

\* the path segments of an index key: the text before the first '='
KeyPath(key) ==
    LET eq == CHOOSE k \in 1..Len(key) : key[k] = "=" /\ \A j \in 1..(k - 1) : key[j] # "="
    IN Split(SubSeq(key, 1, eq - 1), ".")

\* key is e, or ends with '.' followed by e
EndsWith(key, e) ==
    /\ Len(key) >= Len(e)
    /\ SubSeq(key, Len(key) - Len(e) + 1, Len(key)) = e
    /\ Len(key) = Len(e) \/ key[Len(key) - Len(e)] = "."

\* C11: no index key that lists a stored document has a path segment that
\* names an array field of the document or a field inside one of its arrays
\* (in the catalogue these names occur nowhere else in the document); and
\* after an ingestion that succeeded, every scalar field outside arrays is
\* listed under a key that ends with its name and value.
C11_ArraysNotIndexed ==
    /\ \A key \in DOMAIN indexDb :
         \A id \in EntryIds(indexDb, key) \cap StoredIds(db) :
            SeqToSet(KeyPath(key)) \cap ArrayNames(getDocumentById(db, id).doc) = {}
    /\ (resp.op = "add" /\ resp.status = "ok" /\ ~resp.fault)
         => \A id \in resp.ids :
              \A e \in ScalarEnds(getDocumentById(db, id).doc) :
                 \E key \in DOMAIN indexDb :
                    id \in EntryIds(indexDb, key) /\ EndsWith(key, e)

\* a document with an array and a scalar outside it has just been ingested
C11_Witness ==
    /\ resp.op = "add" /\ resp.status = "ok" /\ ~resp.fault
    /\ \E id \in resp.ids :
         /\ ArrayNames(getDocumentById(db, id).doc) # {}
         /\ ScalarEnds(getDocumentById(db, id).doc) # {}
         /\ \E key \in DOMAIN indexDb : id \in EntryIds(indexDb, key)

\* C12: the empty text parses to a Query without comparisons and without
\* error, and that Query matches every document (and the nil document).
C12_EmptyQuery ==
    (qout # NotParsed /\ qin = <<>>)
    => /\ qout.kind = "ok"
       /\ Len(qout.ands) = 0
       /\ \A d \in DocIds : match(qout.ands, Docs[d])
       /\ match(qout.ands, NilMap)

\* the empty text has been parsed
C12_Witness == qout # NotParsed /\ qin = <<>>

\* C13: an ordering comparison whose literal is not a decimal number matches
\* no document.
C13_BadLiteralFails ==
    (mout # "none" /\ min.cmp.op \in {<<">">>, <<"<">>} /\ ~ParseFloat(min.cmp.value).ok)
    => mout = "false"

BadIds(store) == {IdText(i) : i \in {j \in 1..Len(store) : store[j] = Bad}}

C16_EqualityOnlySearch ==
    LET parsed == parseQuery(Queries[resp.q])
        cand == EqIntersection(indexDb, parsed.ands)
    IN (resp.op = "search" /\ ~resp.skip /\ parsed.kind = "ok"
            /\ Len(parsed.ands) > 0
            /\ (\A k \in 1..Len(parsed.ands) : IsEq(parsed.ands[k]))
            /\ cand # {})
       => /\ resp.status = "ok"
          /\ resp.ids = cand
          /\ resp.count = Cardinality(cand)

\* C17: no step removes an ID from an index entry, or removes an entry.
C17_EntriesOnlyGrow ==
    [][\A key \in DOMAIN indexDb :
          /\ key \in DOMAIN indexDb'
          /\ EntryIds(indexDb, key) \subseteq EntryIds(indexDb', key)]_vars

\* C18: a step that answers a search or a get-by-ID request leaves the
\* primary store and the index store as they were.
C18_ReadsWriteNothing ==
    [][resp'.op \in {"search", "get"} => (db' = db /\ indexDb' = indexDb)]_vars

\* a search through the index has answered with documents
C18_Witness ==
    /\ resp.op = "search" /\ ~resp.skip /\ resp.status = "ok" /\ resp.count > 0
    /\ indexDb # EmptyStore

\* C19: a search that skips the index answers with the same IDs and the
\* same count as the same search through the index.
C19_SkipIndexSameAnswer ==
    LET viaIndex == searchDocument(db, indexDb, Queries[resp.q], FALSE, NoFault)
    IN (resp.op = "search" /\ resp.skip /\ resp.status = "ok"
            /\ viaIndex.status = "ok")
       => /\ resp.ids = viaIndex.ids
          /\ resp.count = viaIndex.count

\* the number a field value is coerced to for an ordering comparison: a
\* number is itself, a text is parsed, anything else is not a number
Coerced(doc, key) ==
    LET got == getPath(Obj(doc), key)
    IN IF ~got.ok THEN [ok |-> FALSE, num |-> 0, scale |-> 0]
       ELSE IF got.value.t = "num" THEN [ok |-> TRUE, num |-> got.value.n, scale |-> 0]
       ELSE IF got.value.t = "str" THEN ParseFloat(got.value.s)
       ELSE [ok |-> FALSE, num |-> 0, scale |-> 0]

====
